---------------------------- MODULE Spec2Model ----------------------------
(***************************************************************************)
(* Model of the audio-plugin-manager scan engine: the filename parser and  *)
(* normalizer (src/src/fileRenamer.ts), the grouping, categorization and   *)
(* rename orchestration of PluginScanner (src/src/scanner.ts) and the scan *)
(* entry point of the plugin (src/src/main.ts).                            *)
(*                                                                         *)
(* A string is a sequence of one-character strings, so that the regular    *)
(* expressions of the source are matched character by character.           *)
(***************************************************************************)
EXTENDS Integers, Sequences, FiniteSets, TLC

(***************************************************************************)
(* Characters                                                              *)
(***************************************************************************)
UpperChars == <<"A","B","C","D","E","F","G","H","I","J","K","L","M",
                "N","O","P","Q","R","S","T","U","V","W","X","Y","Z">>

LowerChars == <<"a","b","c","d","e","f","g","h","i","j","k","l","m",
                "n","o","p","q","r","s","t","u","v","w","x","y","z">>

Digits == {"0","1","2","3","4","5","6","7","8","9"}

UpperSet == {UpperChars[i] : i \in 1..26}
LowerSet == {LowerChars[i] : i \in 1..26}

\* String.prototype.toLowerCase on one character
LowerChar(c) ==
  IF c \in UpperSet
    THEN LowerChars[CHOOSE i \in 1..26 : UpperChars[i] = c]
    ELSE c

\* String.prototype.toLowerCase
ToLower(s) == [i \in 1..Len(s) |-> LowerChar(s[i])]

\* the regular expression class \s (the model's only white space is the blank)
IsSpace(c) == c = " "

\* the regular expression class \d
IsDigit(c) == c \in Digits

\* the regular expression class [a-zA-Z0-9]
IsAlnum(c) == c \in UpperSet \cup LowerSet \cup Digits

\* index just past the run of white space that starts at i (\s* , greedy)
RECURSIVE SkipSpaces(_, _)
SkipSpaces(s, i) ==
  IF i <= Len(s) /\ IsSpace(s[i]) THEN SkipSpaces(s, i + 1) ELSE i

\* index just past the run of digits that starts at i (\d* , greedy)
RECURSIVE SkipDigits(_, _)
SkipDigits(s, i) ==
  IF i <= Len(s) /\ IsDigit(s[i]) THEN SkipDigits(s, i + 1) ELSE i

\* String.prototype.slice(i - 1): the characters from index i on
Tail_(s, i) == IF i > Len(s) THEN <<>> ELSE SubSeq(s, i, Len(s))

\* the literal w (lower case) occurs in s at index i, compared without case
MatchAtCI(s, i, w) ==
  /\ i + Len(w) - 1 <= Len(s)
  /\ \A k \in 1..Len(w) : LowerChar(s[i + k - 1]) = w[k]

\* String.prototype.trim
TrimLeft(s) == Tail_(s, SkipSpaces(s, 1))

RECURSIVE TrimRight(_)
TrimRight(s) ==
  IF Len(s) > 0 /\ IsSpace(s[Len(s)])
    THEN TrimRight(SubSeq(s, 1, Len(s) - 1))
    ELSE s

Trim(s) == TrimRight(TrimLeft(s))

\* replace(/[\s-]+/g, ' '): every run of blanks and hyphens becomes one blank
RECURSIVE CollapseFrom(_, _, _)
CollapseFrom(s, i, inRun) ==
  IF i > Len(s) THEN <<>>
  ELSE IF IsSpace(s[i]) \/ s[i] = "-"
    THEN (IF inRun THEN <<>> ELSE <<" ">>) \o CollapseFrom(s, i + 1, TRUE)
    ELSE <<s[i]>> \o CollapseFrom(s, i + 1, FALSE)

Collapse(s) == CollapseFrom(s, 1, FALSE)

(***************************************************************************)
(* Node's path module, for names without a path separator                  *)
(***************************************************************************)
\* index of the last "." of s, 0 if there is none
RECURSIVE LastDot(_, _)
LastDot(s, i) ==
  IF i = 0 THEN 0 ELSE IF s[i] = "." THEN i ELSE LastDot(s, i - 1)

\* path.extname: from the last dot on; empty if there is no dot, if the only
\* dot is the first character, or if the name is ".."
ExtName(s) ==
  LET k == LastDot(s, Len(s)) IN
    IF k <= 1 \/ s = <<".", ".">> THEN <<>> ELSE SubSeq(s, k, Len(s))

\* path.basename(name, suffix): the name without the suffix when it ends
\* with it (compared with case), the empty string when it equals it
BaseName(s, ext) ==
  IF ext = <<>> \/ Len(ext) > Len(s) THEN s
  ELSE IF ext = s THEN <<>>
  ELSE IF SubSeq(s, Len(s) - Len(ext) + 1, Len(s)) = ext
    THEN SubSeq(s, 1, Len(s) - Len(ext))
    ELSE s

\* index of the last "/" of s, 0 if there is none
RECURSIVE LastSlash(_, _)
LastSlash(s, i) ==
  IF i = 0 THEN 0 ELSE IF s[i] = "/" THEN i ELSE LastSlash(s, i - 1)

\* path.basename(p) of a path that does not end with a separator
PathBaseName(p) == Tail_(p, LastSlash(p, Len(p)) + 1)

\* path.join(dir, name)
PathJoin(dir, name) == dir \o <<"/">> \o name

(***************************************************************************)
(* FileRenamer.parseFileName                                               *)
(***************************************************************************)
NoMatch == [found |-> FALSE, start |-> 0, tok |-> 0, tokEnd |-> 0, end |-> 0]

\* developerRegex /^([^-]+?)(?:\s*[-_]\s*|\s+)/ with a group of n characters:
\* the index just past the whole match, 0 if it does not match
DeveloperMatchEnd(s, n) ==
  LET j == SkipSpaces(s, n + 1) IN
    IF \E k \in 1..n : s[k] = "-" THEN 0
    ELSE IF j <= Len(s) /\ s[j] \in {"-", "_"} THEN SkipSpaces(s, j + 1)
    ELSE IF j > n + 1 THEN j
    ELSE 0

\* the lazy group takes the least n for which the rest matches
DeveloperMatch(s) ==
  LET ns == {n \in 1..Len(s) : DeveloperMatchEnd(s, n) # 0} IN
    IF ns = {} THEN NoMatch
    ELSE LET n == CHOOSE m \in ns : \A o \in ns : m <= o IN
      [found |-> TRUE, start |-> 1, tok |-> 1, tokEnd |-> n + 1,
       end |-> DeveloperMatchEnd(s, n)]

\* length of (?:x64|x86|win(?:dows)?(?:64)?|mac|osx|linux) at index i, 0 if none
PlatformTokenLen(s, i) ==
  IF MatchAtCI(s, i, <<"x","6","4">>) THEN 3
  ELSE IF MatchAtCI(s, i, <<"x","8","6">>) THEN 3
  ELSE IF MatchAtCI(s, i, <<"w","i","n">>) THEN
    LET a == IF MatchAtCI(s, i + 3, <<"d","o","w","s">>) THEN 7 ELSE 3 IN
      IF MatchAtCI(s, i + a, <<"6","4">>) THEN a + 2 ELSE a
  ELSE IF MatchAtCI(s, i, <<"m","a","c">>) THEN 3
  ELSE IF MatchAtCI(s, i, <<"o","s","x">>) THEN 3
  ELSE IF MatchAtCI(s, i, <<"l","i","n","u","x">>) THEN 5
  ELSE 0

\* the index past "." and at least one digit at index e, e itself if none
SkipDotDigits(s, e) ==
  IF e <= Len(s) /\ s[e] = "." /\ SkipDigits(s, e + 1) > e + 1
    THEN SkipDigits(s, e + 1)
    ELSE e

\* the index past \d+\.\d+\.\d+, \d+\.\d+ or \d+ at index p, whichever of
\* them matches first in this order; p itself if none
SkipVersionNumber(s, p) ==
  IF SkipDigits(s, p) = p THEN p
  ELSE IF SkipDotDigits(s, SkipDigits(s, p)) = SkipDigits(s, p)
    THEN SkipDigits(s, p)
    ELSE SkipDotDigits(s, SkipDotDigits(s, SkipDigits(s, p)))

\* length of v?(?:\d+\.\d+\.\d+|\d+\.\d+|\d+) at index i, 0 if none
VersionTokenLen(s, i) ==
  IF i <= Len(s) /\ LowerChar(s[i]) = "v"
    THEN (IF SkipVersionNumber(s, i + 1) = i + 1
            THEN 0 ELSE SkipVersionNumber(s, i + 1) - i)
    ELSE SkipVersionNumber(s, i) - i

\* length of (?:installer|setup|full) at index i, 0 if none
SuffixTokenLen(s, i) ==
  IF MatchAtCI(s, i, <<"i","n","s","t","a","l","l","e","r">>) THEN 9
  ELSE IF MatchAtCI(s, i, <<"s","e","t","u","p">>) THEN 5
  ELSE IF MatchAtCI(s, i, <<"f","u","l","l">>) THEN 4
  ELSE 0

\* the length at index i of the token that platformRegex, versionRegex or
\* suffixRegex looks for
TokenLen(regex, s, i) ==
  CASE regex = "platform" -> PlatformTokenLen(s, i)
    [] regex = "version" -> VersionTokenLen(s, i)
    [] regex = "suffix" -> SuffixTokenLen(s, i)

\* the leftmost blank from index i on whose run of blanks is followed by a
\* token, 0 if there is none
RECURSIVE FirstTokenBlank(_, _, _)
FirstTokenBlank(s, regex, i) ==
  IF i > Len(s) THEN 0
  ELSE IF IsSpace(s[i]) /\ TokenLen(regex, s, SkipSpaces(s, i)) # 0 THEN i
  ELSE FirstTokenBlank(s, regex, i + 1)

\* the match that starts with the blank at index i and has its token at j
TokenMatchAt(s, regex, i, j) ==
  IF i = 0 THEN NoMatch
  ELSE [found |-> TRUE, start |-> i, tok |-> j,
        tokEnd |-> j + TokenLen(regex, s, j),
        end |-> SkipSpaces(s, j + TokenLen(regex, s, j))]

\* the first match of /\s+(?:TOKEN)(?:\s*|$)/i in s
TokenMatch(s, regex) ==
  TokenMatchAt(s, regex, FirstTokenBlank(s, regex, 1),
               SkipSpaces(s, FirstTokenBlank(s, regex, 1)))

\* a parser that takes match[0] without testing the match: the text of the
\* missing value is stored
MatchedTokenUntested(s, m) ==
  IF m.found THEN SubSeq(s, m.tok, m.tokEnd - 1)
  ELSE <<"u","n","d","e","f","i","n","e","d">>

\* match[0].trim() of a TokenMatch: the token as written
MatchedToken(s, m) == IF m.found THEN SubSeq(s, m.tok, m.tokEnd - 1) ELSE <<>>

\* baseName.replace(regex, ' '): the first match becomes one blank
ReplaceMatch(s, m) ==
  IF m.found
    THEN SubSeq(s, 1, m.start - 1) \o <<" ">> \o Tail_(s, m.end)
    ELSE s

\* the parser's variables once developerMatch dm has been dealt with
ExtractDeveloper(baseName, ext, dm) ==
  [baseName  |-> IF dm.found THEN Tail_(baseName, dm.end) ELSE baseName,
   developer |-> IF dm.found THEN Trim(SubSeq(baseName, 1, dm.tokEnd - 1))
                             ELSE <<>>,
   platform  |-> <<>>,
   version   |-> <<>>,
   suffix    |-> <<>>,
   extension |-> ext]

\* the parser's variables once the match m of platformRegex, versionRegex
\* or suffixRegex has been dealt with
ExtractToken(p, regex, m) ==
  [p EXCEPT ![regex] = MatchedToken(p.baseName, m),
            !.baseName = ReplaceMatch(p.baseName, m)]

\* one of the three steps "extract the platform / version / suffix"
ExtractStep(p, regex) == ExtractToken(p, regex, TokenMatch(p.baseName, regex))

\* the ParsedFileName returned
ParsedFileName(p) ==
  [developer  |-> p.developer,
   pluginName |-> Trim(Collapse(p.baseName)),
   platform   |-> p.platform,
   version    |-> p.version,
   suffix     |-> p.suffix,
   extension  |-> ToLower(p.extension)]

\* parseFileName from the base name and the extension on
ParseBaseName(baseName, ext) ==
  ParsedFileName(
    ExtractStep(
      ExtractStep(
        ExtractStep(ExtractDeveloper(baseName, ext, DeveloperMatch(baseName)),
                    "platform"),
        "version"),
      "suffix"))

parseFileName(fileName) ==
  ParseBaseName(BaseName(fileName, ExtName(fileName)), ExtName(fileName))

(***************************************************************************)
(* FileRenamer.normalizePluginFileName                                     *)
(***************************************************************************)
\* a name with the version before the platform
normalizeVersionFirst(parsedName, developerFolder) ==
  PathBaseName(developerFolder) \o <<" ", "-", " ">> \o parsedName.pluginName
    \o (IF parsedName.version # <<>>
          THEN <<" ">> \o parsedName.version ELSE <<>>)
    \o (IF parsedName.platform # <<>>
          THEN <<" ">> \o parsedName.platform ELSE <<>>)
    \o ToLower(parsedName.extension)

normalizePluginFileName(parsedName, developerFolder) ==
  PathBaseName(developerFolder) \o <<" ", "-", " ">> \o parsedName.pluginName
    \o (IF parsedName.platform # <<>>
          THEN <<" ">> \o parsedName.platform ELSE <<>>)
    \o (IF parsedName.version # <<>>
          THEN <<" ">> \o parsedName.version ELSE <<>>)
    \o ToLower(parsedName.extension)

(***************************************************************************)
(* PluginScanner.getPluginBaseName: the key under which files are grouped  *)
(***************************************************************************)
\* \d+(\.\d+)*$ at index q: digit groups separated by dots up to the end
RECURSIVE DotDigitsToEnd(_, _)
DotDigitsToEnd(s, q) ==
  LET d == SkipDigits(s, q) IN
    /\ d > q
    /\ \/ d > Len(s)
       \/ s[d] = "." /\ DotDigitsToEnd(s, d + 1)

\* the literal w (lower case) is exactly the rest of s from index p on
IsRestCI(s, p, w) == MatchAtCI(s, p, w) /\ p + Len(w) - 1 = Len(s)

\* (v\d+(\.\d+)*|PC|Windows|x64|Setup)$ at index p, without case
TrailingTokenAt(s, p) ==
  /\ p <= Len(s)
  /\ \/ LowerChar(s[p]) = "v" /\ DotDigitsToEnd(s, p + 1)
     \/ IsRestCI(s, p, <<"p","c">>)
     \/ IsRestCI(s, p, <<"w","i","n","d","o","w","s">>)
     \/ IsRestCI(s, p, <<"x","6","4">>)
     \/ IsRestCI(s, p, <<"s","e","t","u","p">>)

\* replace(/\s*(v\d+(\.\d+)*|PC|Windows|x64|Setup)$/i, ''): the leftmost
\* index from which blanks and then a trailing token reach the end is cut
StripTrailingToken(s) ==
  LET is == {i \in 1..Len(s) : TrailingTokenAt(s, SkipSpaces(s, i))} IN
    IF is = {} THEN s
    ELSE SubSeq(s, 1, (CHOOSE m \in is : \A o \in is : m <= o) - 1)

\* replace(new RegExp(`^${developerName}\\s*[-_]\\s*`, 'i'), ''), for a
\* developer name of letters, digits, blanks and underscores (no character
\* with a meaning in a regular expression)
StripDeveloperPrefix(s, developerName) ==
  LET n == Len(developerName)
      j == SkipSpaces(s, n + 1)
  IN IF /\ MatchAtCI(s, 1, ToLower(developerName))
        /\ j <= Len(s)
        /\ s[j] \in {"-", "_"}
       THEN Tail_(s, SkipSpaces(s, j + 1))
       ELSE s

getPluginBaseName(fileName, developerName) ==
  LET b0 == BaseName(fileName, ExtName(fileName))
      b1 == Trim(Collapse(b0))
      b2 == IF developerName # <<>>
              THEN StripDeveloperPrefix(b1, developerName) ELSE b1
  IN StripTrailingToken(b2)

(***************************************************************************)
(* The file system and the settings the scan works on                      *)
(***************************************************************************)
\* bound: files a developer folder holds when the scan starts
MaxFiles == 2

\* bound: file system calls that fail for a reason other than permissions
MaxIOFailures == 1

\* bound: scans started one after the other
MaxScans == 2

\* settings.mainFolder, and the developer folders readdirSync lists in it
MainFolder == <<"/","m">>

DevNames == << <<"D","e","v">>, <<"N"," ","I">> >>

developerFolders == [i \in 1..Len(DevNames) |-> PathJoin(MainFolder, DevNames[i])]

\* a folder inside the first developer folder
SubFolder == PathJoin(developerFolders[1], <<"s">>)

\* the process working directory, which is no folder of the scan
Cwd == <<".">>

\* settings.extensions and settings.foldersToIgnore as configured
Extensions == { <<".","e","x","e">>, <<".","z","i","p">>, <<".","p","n","g">> }

FoldersToIgnore == { <<"S","a","m","p","l","e","s">> }

IMAGE_EXTENSIONS ==
  { <<".","p","n","g">>, <<".","j","p","g">>, <<".","j","p","e","g">>,
    <<".","g","i","f">>, <<".","w","e","b","p">> }

DOCUMENTATION_EXTENSIONS ==
  { <<".","m","d">>, <<".","p","d","f">>, <<".","t","x","t">> }

INSTALLER_EXTENSIONS ==
  { <<".","z","i","p">>, <<".","e","x","e">>, <<".","m","s","i">> }

\* the files a developer folder may hold when the scan starts; the position
\* in this list is the identity of the file and its place in a listing
Candidates ==
  << [dir |-> developerFolders[1], name |-> <<"D","e","v","_","F","o","o",".","e","x","e">>],
     [dir |-> developerFolders[1], name |-> <<"F","o","o",".","e","x","e">>],
     [dir |-> developerFolders[1], name |-> <<"D","e","v"," ","-"," ","F","o","o",".","e","x","e">>],
     [dir |-> developerFolders[1], name |-> <<"D","e","v","_","F","o","o",".","z","i","p">>],
     [dir |-> developerFolders[1], name |-> <<"D","e","v","_","F","o","o"," ","v","1",".","z","i","p">>],
     [dir |-> developerFolders[1], name |-> <<"D","e","v","_","F","o","o",".","p","n","g">>],
     [dir |-> SubFolder,           name |-> <<"D","e","v","_","F","o","o",".","e","x","e">>],
     [dir |-> developerFolders[2], name |-> <<"K",".","e","x","e">>],
     [dir |-> developerFolders[2], name |-> <<"N"," ","I"," ","-"," ","K",".","e","x","e">>],
     [dir |-> developerFolders[1], name |-> <<"D","e","v","_","K","+",".","e","x","e">>] >>

\* the developer folder a directory lies in
DevOf(dir) ==
  CHOOSE d \in {developerFolders[i] : i \in 1..Len(developerFolders)} :
    /\ Len(dir) >= Len(d)
    /\ SubSeq(dir, 1, Len(d)) = d

Path(dir, name) == [dir |-> dir, name |-> name]

PathOf(f) == Path(f.dir, f.name)

\* fs.existsSync
Exists(files, p) == \E f \in files : PathOf(f) = p

\* what fs.rename leaves when it succeeds: the entry of oldPath moves to
\* newPath, and an entry already at newPath is replaced
Renamed(files, oldPath, newPath) ==
  IF oldPath = newPath THEN files
  ELSE LET f == CHOOSE g \in files : PathOf(g) = oldPath IN
    {g \in files : PathOf(g) # oldPath /\ PathOf(g) # newPath}
      \cup {[dir |-> newPath.dir, name |-> newPath.name, id |-> f.id]}

\* the files a rename onto newPath destroys
Clobbered(files, oldPath, newPath) ==
  IF oldPath = newPath THEN {}
  ELSE {g.id : g \in {h \in files : PathOf(h) = newPath}}

\* a set of file entries as a sequence, in listing order
RECURSIVE Listing(_)
Listing(files) ==
  IF files = {} THEN <<>>
  ELSE LET f == CHOOSE g \in files : \A h \in files : g.id <= h.id
       IN <<PathOf(f)>> \o Listing(files \ {f})

(***************************************************************************)
(* PluginScanner.findPluginFiles and the grouping into plugin units        *)
(***************************************************************************)
\* String.prototype.includes
Includes(s, w) ==
  \E i \in 1..(Len(s) - Len(w) + 1) : SubSeq(s, i, i + Len(w) - 1) = w

\* String.prototype.endsWith
EndsWith(s, w) ==
  Len(w) <= Len(s) /\ SubSeq(s, Len(s) - Len(w) + 1, Len(s)) = w

\* the path of a file entry as one string
FullPath(p) == PathJoin(p.dir, p.name)

shouldOmitPath(filePath) ==
  \E folder \in FoldersToIgnore :
    \/ Includes(filePath, <<"/">> \o folder \o <<"/">>)
    \/ EndsWith(filePath, <<"/">> \o folder)

\* dir is the folder d or lies under it
IsUnder(dir, d) ==
  \/ dir = d
  \/ Len(dir) > Len(d) /\ SubSeq(dir, 1, Len(d) + 1) = d \o <<"/">>

\* the files the recursive walk of dir collects, in listing order
findPluginFiles(files, dir) ==
  Listing({f \in files :
             /\ IsUnder(f.dir, dir)
             /\ ~shouldOmitPath(f.dir)
             /\ ToLower(ExtName(f.name)) \in Extensions
             /\ ~shouldOmitPath(FullPath(PathOf(f)))})

\* pluginsGrouped: the units in the order their keys were inserted (no key
\* of the model is an integer index, which Object.keys would list first)
RECURSIVE GroupFiles(_, _, _, _)
GroupFiles(files, i, developerName, grouped) ==
  IF i > Len(files) THEN grouped
  ELSE
    LET baseName == getPluginBaseName(files[i].name, developerName)
        ks == {k \in 1..Len(grouped) : grouped[k].name = baseName}
        next ==
          IF ks = {}
            THEN Append(grouped, [name |-> baseName, files |-> <<files[i]>>])
            ELSE LET k == CHOOSE j \in ks : TRUE IN
              [grouped EXCEPT ![k].files = Append(@, files[i])]
    IN GroupFiles(files, i + 1, developerName, next)

(***************************************************************************)
(* PluginScanner.normalizeImageName and PluginScanner.categorizeFiles      *)
(***************************************************************************)
\* replace(/[^a-zA-Z0-9\s]/g, '')
KeepAlnumSpace(s) == SelectSeq(s, LAMBDA c : IsAlnum(c) \/ IsSpace(c))

\* replace(/[^a-zA-Z0-9\s_-]/g, '')
KeepAlnumSpaceUnderscoreHyphen(s) ==
  SelectSeq(s, LAMBDA c : IsAlnum(c) \/ IsSpace(c) \/ c \in {"_", "-"})

\* replace(/\s+/g, '_'): every run of blanks becomes one underscore
RECURSIVE SpacesToUnderscoreFrom(_, _, _)
SpacesToUnderscoreFrom(s, i, inRun) ==
  IF i > Len(s) THEN <<>>
  ELSE IF IsSpace(s[i])
    THEN (IF inRun THEN <<>> ELSE <<"_">>) \o SpacesToUnderscoreFrom(s, i + 1, TRUE)
    ELSE <<s[i]>> \o SpacesToUnderscoreFrom(s, i + 1, FALSE)

SpacesToUnderscore(s) == SpacesToUnderscoreFrom(s, 1, FALSE)

DigitChars == <<"0","1","2","3","4","5","6","7","8","9">>

\* a counter as interpolated into a template string
RECURSIVE NatToString(_)
NatToString(n) ==
  IF n < 10 THEN <<DigitChars[n + 1]>>
  ELSE NatToString(n \div 10) \o <<DigitChars[(n % 10) + 1]>>

\* the while loop of normalizeImageName: the first name of the series
\* clean.ext, clean-1.ext, clean-2.ext, ... that does not exist in dirPath
RECURSIVE FreeImageName(_, _, _, _, _, _)
FreeImageName(files, dirPath, newName, cleanPluginName, ext, counter) ==
  IF Exists(files, Path(dirPath, newName))
    THEN FreeImageName(files, dirPath,
                       cleanPluginName \o <<"-">> \o NatToString(counter) \o ext,
                       cleanPluginName, ext, counter + 1)
    ELSE newName

\* path.dirname of a bare file name is ".", and a path relative to "." is
\* looked up in the process working directory
normalizeImageName(files, fileName, pluginName) ==
  LET ext == ToLower(ExtName(fileName))
      cleanPluginName == SpacesToUnderscore(Trim(KeepAlnumSpace(pluginName)))
      currentBaseName ==
        ToLower(SpacesToUnderscore(Trim(
          KeepAlnumSpaceUnderscoreHyphen(BaseName(fileName, ext)))))
  IN IF currentBaseName = ToLower(cleanPluginName)
       THEN fileName
       ELSE FreeImageName(files, Cwd, cleanPluginName \o ext,
                          cleanPluginName, ext, 1)

\* a PluginFiles record; an optional field is a sequence of at most one path
EmptyPluginFiles ==
  [zipFile |-> <<>>, executableFile |-> <<>>, documentationFiles |-> <<>>,
   imageFiles |-> <<>>, otherFiles |-> <<>>]

\* path.extname(file).toLowerCase()
LowerExt(file) == ToLower(ExtName(file.name))

\* the first loop of categorizeFiles: a later .zip replaces an earlier one,
\* and a later .exe or .msi an earlier one
RECURSIVE InstallerPass(_, _, _)
InstallerPass(pluginFiles, i, result) ==
  IF i > Len(pluginFiles) THEN result
  ELSE
    LET file == pluginFiles[i]
        ext == LowerExt(file)
    IN InstallerPass(pluginFiles, i + 1,
         IF ext = <<".","z","i","p">>
           THEN [result EXCEPT !.zipFile = <<file>>]
         ELSE IF ext \in { <<".","e","x","e">>, <<".","m","s","i">> }
           THEN [result EXCEPT !.executableFile = <<file>>]
         ELSE result)

\* Array.prototype.includes
Contains(seq, x) == \E k \in 1..Len(seq) : seq[k] = x

\* pluginBaseNames.find(pluginName => imageBaseName.includes(pluginName)):
\* a sequence of at most one element
FindIncluded(seq, imageBaseName) ==
  LET ks == {k \in 1..Len(seq) : Includes(imageBaseName, seq[k])} IN
    IF ks = {} THEN <<>>
    ELSE <<seq[CHOOSE k \in ks : \A o \in ks : k <= o]>>

\* the image branch of categorizeFiles on one file: the path pushed to
\* imageFiles and the files left by fs.renameSync, which throws when the
\* source is gone or its directory is not writable
ImageStep(files, canWrite, file, pluginBaseNames) ==
  LET fileName == file.name
      ext == LowerExt(file)
      imageBaseName == Trim(KeepAlnumSpace(ToLower(BaseName(fileName, ext))))
      matchingPlugin == FindIncluded(pluginBaseNames, imageBaseName)
  IN IF matchingPlugin # <<>> /\ matchingPlugin[1] # <<>>
       THEN
         LET normalizedImageName ==
               normalizeImageName(files, fileName, matchingPlugin[1])
             newImagePath == Path(file.dir, normalizedImageName)
         IN IF fileName = normalizedImageName
              THEN [pushed |-> file, files |-> files, lost |-> {}]
            ELSE IF Exists(files, file) /\ file.dir \in canWrite
              THEN [pushed |-> newImagePath,
                    files |-> Renamed(files, file, newImagePath),
                    lost |-> Clobbered(files, file, newImagePath)]
              ELSE [pushed |-> file, files |-> files, lost |-> {}]
       ELSE [pushed |-> file, files |-> files, lost |-> {}]

\* the second loop of categorizeFiles; st carries the result so far, the
\* files as the image renames leave them, the files those renames destroyed
\* and, for every input, the path it is known under afterwards
RECURSIVE CategorizeRest(_, _, _, _, _, _)
CategorizeRest(input, i, pluginFiles, pluginBaseNames, canWrite, st) ==
  IF i > Len(input) THEN st
  ELSE
    LET file == input[i]
        ext == LowerExt(file)
        img == ImageStep(st.files, canWrite, file, pluginBaseNames)
        next ==
          IF Contains(pluginFiles, file)
            THEN [st EXCEPT !.known = Append(@, file)]
          ELSE IF ext \in DOCUMENTATION_EXTENSIONS
            THEN [st EXCEPT !.result.documentationFiles = Append(@, file),
                            !.known = Append(@, file)]
          ELSE IF ext \in IMAGE_EXTENSIONS
            THEN [st EXCEPT !.result.imageFiles = Append(@, img.pushed),
                            !.files = img.files,
                            !.lost = @ \cup img.lost,
                            !.known = Append(@, img.pushed)]
          ELSE [st EXCEPT !.result.otherFiles = Append(@, file),
                          !.known = Append(@, file)]
    IN CategorizeRest(input, i + 1, pluginFiles, pluginBaseNames, canWrite, next)

categorizeFiles(files, canWrite, input) ==
  LET pluginFiles ==
        SelectSeq(input, LAMBDA f : LowerExt(f) \in INSTALLER_EXTENSIONS)
      pluginBaseNames ==
        [k \in 1..Len(pluginFiles) |->
           Trim(KeepAlnumSpace(ToLower(
             getPluginBaseName(pluginFiles[k].name, <<>>))))]
  IN CategorizeRest(input, 1, pluginFiles, pluginBaseNames, canWrite,
       [result |-> InstallerPass(pluginFiles, 1, EmptyPluginFiles),
        files |-> files, lost |-> {}, known |-> <<>>])

(***************************************************************************)
(* State                                                                   *)
(***************************************************************************)
VARIABLES
  fs,               \* the files under the main folder: [dir, name, id]
  writable,         \* developer folder -> whether it may be written to
  stopRequested,    \* PluginScanner.stopRequested
  isScanning,       \* AudioPluginView.isScanning
  pc,               \* where scanAndProcessPlugins waits or stands
  devIdx,           \* index of developerPath in developerFolders
  units,            \* pluginsGrouped of the current developer folder
  unitIdx,          \* index of pluginName in Object.keys(pluginsGrouped)
  batch,            \* the processFile calls of the current plugin unit
  developerPlugins, \* plugin name -> PluginFiles, current developer folder
  allPlugins,       \* developer name -> developerPlugins
  lastCategorize,   \* input and outcome of the latest categorizeFiles call
  devLog,           \* developer folder -> lines of _developer_changes.log
  result,           \* how the latest scanAndProcessPlugins call ended
  ioFailures,       \* file system calls that failed for another reason
  scans,            \* scans started so far
  lost,             \* history: files a rename destroyed, and by which rename
  stopClicked,      \* the button was clicked to stop the latest scan
  fn,               \* the parser and normalizer applied to one file name
  app               \* the plugin: its settings, what onload registered, and
                    \* the scanPlugins calls in flight

vars == <<fs, writable, stopRequested, isScanning, pc, devIdx, units, unitIdx,
          batch, developerPlugins, allPlugins, lastCategorize, devLog, result,
          ioFailures, scans, lost, stopClicked, fn, app>>

scanVars == <<fs, writable, stopRequested, isScanning, pc, devIdx, units,
              unitIdx, batch, developerPlugins, allPlugins, lastCategorize,
              devLog, result, ioFailures, scans, lost, stopClicked, app>>

DevFolderSet == {developerFolders[i] : i \in 1..Len(developerFolders)}

\* the directories a rename may write to
CanWrite == {d \in DevFolderSet : writable[d]} \cup {SubFolder}

NoResult ==
  [kind |-> "none", cause |-> "", developers |-> 0, plugins |-> 0,
   zips |-> 0, stopped |-> FALSE]

Threw(cause) == [NoResult EXCEPT !.kind = "threw", !.cause = cause]

NoCategorize == [input |-> <<>>, known |-> <<>>, result |-> EmptyPluginFiles]

FnIdle == [stage |-> "none"]

\* the three things onload registers
Registered == {"settingTab", "view", "commands"}

\* no scanPlugins call has ended yet
NoCall == [outcome |-> "none", via |-> "", folder |-> <<>>, stopped |-> FALSE,
           touched |-> FALSE, before |-> 0, saveFailed |-> FALSE]

\* the plugin once onload has completed with the main folder set
AppLoaded ==
  [loaded |-> "ok", registered |-> Registered, mainFolder |-> MainFolder,
   lastScanDate |-> 0, savedDate |-> 0, calls |-> 0, running |-> {},
   last |-> NoCall]

\* the selections of candidate files with at most MaxFiles per developer folder
Selections ==
  {S \in SUBSET (1..Len(Candidates)) :
     \A d \in DevFolderSet :
       Cardinality({i \in S : DevOf(Candidates[i].dir) = d}) <= MaxFiles}

ScanInit ==
  /\ \E S \in Selections :
       fs = {[dir |-> Candidates[i].dir, name |-> Candidates[i].name, id |-> i] :
               i \in S}
  /\ writable \in [DevFolderSet -> BOOLEAN]
  /\ stopRequested = FALSE
  /\ isScanning = FALSE
  /\ pc = "idle"
  /\ devIdx = 0
  /\ units = <<>>
  /\ unitIdx = 0
  /\ batch = <<>>
  /\ developerPlugins = <<>>
  /\ allPlugins = <<>>
  /\ lastCategorize = NoCategorize
  /\ devLog = [d \in DevFolderSet |-> <<>>]
  /\ result = NoResult
  /\ ioFailures = 0
  /\ scans = 0
  /\ lost = {}
  /\ stopClicked = FALSE
  /\ app = AppLoaded

Init == ScanInit /\ fn = FnIdle

(***************************************************************************)
(* PluginScanner.processFile and PluginScanner.processAllFiles             *)
(***************************************************************************)
\* processFile from "const newPath" up to its first await, where the access
\* check is issued
processFileAccess(filePath, developerPath) ==
  [path |-> filePath,
   newPath |-> Path(developerPath,
                    normalizePluginFileName(parseFileName(filePath.name),
                                            developerPath)),
   st |-> "access", value |-> filePath, calls |-> 0, error |-> ""]

\* processFile without the comparison of the current and the computed name:
\* the access check is issued for every file
processFileNoEarlyReturn(filePath, developerPath) ==
  processFileAccess(filePath, developerPath)

\* processFile up to its first await: a file whose name is already the
\* computed one is returned at once, for any other the access check is issued
processFileStart(filePath, developerPath) ==
  IF filePath.name = normalizePluginFileName(parseFileName(filePath.name),
                                             developerPath)
    THEN [path |-> filePath, newPath |-> filePath, st |-> "fulfilled",
          value |-> filePath, calls |-> 0, error |-> ""]
    ELSE processFileAccess(filePath, developerPath)

\* a catch clause that treats EACCES like any other error: logged, and the
\* original path is returned
permissionSwallowed(entry) ==
  [entry EXCEPT !.st = "fulfilled", !.value = entry.path, !.error = "io",
                !.calls = @ + 1]

\* the catch clause of processFile on EACCES: the promise is rejected with
\* "No write permission in directory"
permissionDenied(entry) ==
  [entry EXCEPT !.st = "rejected", !.error = "permission",
                !.calls = @ + 1]

\* the catch clause of processFile on any other error: logged, and the
\* original path is returned
renameFailed(entry) ==
  [entry EXCEPT !.st = "fulfilled", !.value = entry.path, !.error = "io",
                !.calls = @ + 1]

\* a wait for the batch that a stop request also ends
BatchSettledOrStopped ==
  \/ stopRequested
  \/ \A k \in 1..Len(batch) : batch[k].st \in {"fulfilled", "rejected"}

\* a wait that the first call to end already ends, as Promise.race would
BatchFirstSettled ==
  \/ batch = <<>>
  \/ \E k \in 1..Len(batch) : batch[k].st \in {"fulfilled", "rejected"}

\* Promise.allSettled has settled: no processFile call is still waiting
BatchSettled == \A k \in 1..Len(batch) : batch[k].st \in {"fulfilled", "rejected"}

\* processAllFiles over Promise.all: one rejection rejects the whole batch
processAllFilesFailFast(b) ==
  LET fulfilled == SelectSeq(b, LAMBDA e : e.st = "fulfilled") IN
    [threw |-> \E k \in 1..Len(b) : b[k].st = "rejected",
     processedFiles |-> [k \in 1..Len(fulfilled) |-> fulfilled[k].value]]

\* processAllFiles once the batch has settled: the fulfilled values in the
\* order of the files; a rejection is logged and never thrown
processAllFiles(b) ==
  LET fulfilled == SelectSeq(b, LAMBDA e : e.st = "fulfilled") IN
    [threw |-> FALSE,
     processedFiles |-> [k \in 1..Len(fulfilled) |-> fulfilled[k].value]]

(***************************************************************************)
(* The scan: the "Scan Plugins" button, AudioPluginManager.scanPlugins and *)
(* PluginScanner.scanAndProcessPlugins                                     *)
(***************************************************************************)
\* the button handler's finally clause once scanPlugins has returned
Finished(r) ==
  /\ result' = r
  /\ isScanning' = FALSE
  /\ pc' = "idle"

\* a click while no scan runs; readdirSync lists the main folder
StartScan ==
  /\ ~isScanning
  /\ pc = "idle"
  /\ scans < MaxScans
  /\ scans' = scans + 1
  /\ isScanning' = TRUE
  /\ result' = NoResult
  /\ allPlugins' = <<>>
  /\ devIdx' = 1
  /\ pc' = "devLoop"
  /\ stopClicked' = FALSE
  /\ UNCHANGED <<fs, writable, stopRequested, units, unitIdx, batch,
                 developerPlugins, lastCategorize, devLog, ioFailures, lost,
                 fn, app>>

\* a click while no scan runs; the main folder is missing or unreadable and
\* readdirSync throws
StartScanRootUnreadable ==
  /\ ~isScanning
  /\ pc = "idle"
  /\ scans < MaxScans
  /\ scans' = scans + 1
  /\ Finished(Threw("root"))
  /\ stopClicked' = FALSE
  /\ UNCHANGED <<fs, writable, stopRequested, devIdx, units, unitIdx, batch,
                 developerPlugins, allPlugins, lastCategorize, devLog,
                 ioFailures, lost, fn, app>>

\* a click while a scan runs, which can only be served while the scan waits
\* for the file system; the button is disabled from then on until the scan
\* has returned
RequestStop ==
  /\ isScanning
  /\ ~stopClicked
  /\ \/ pc \in {"log", "index", "import"}
     \/ pc = "batch" /\ ~BatchSettled
  /\ stopRequested' = TRUE
  /\ stopClicked' = TRUE
  /\ UNCHANGED <<fs, writable, isScanning, pc, devIdx, units, unitIdx, batch,
                 developerPlugins, allPlugins, lastCategorize, devLog, result,
                 ioFailures, scans, lost, fn, app>>

\* the head of the loop over the developer folders
DevLoop ==
  /\ pc = "devLoop"
  /\ IF devIdx > Len(developerFolders) \/ stopRequested
       THEN /\ pc' = "index"
            /\ UNCHANGED <<units, unitIdx, developerPlugins>>
       ELSE /\ units' = GroupFiles(findPluginFiles(fs, developerFolders[devIdx]),
                                   1, DevNames[devIdx], <<>>)
            /\ unitIdx' = 1
            /\ developerPlugins' = <<>>
            /\ pc' = "unitLoop"
  /\ UNCHANGED <<fs, writable, stopRequested, isScanning, devIdx, batch,
                 allPlugins, lastCategorize, devLog, result, ioFailures,
                 scans, lost, stopClicked,
                 fn, app>>

\* the head of the loop over the plugin units of one developer folder; a
\* unit that is entered has processFile called on each of its files
UnitLoop ==
  /\ pc = "unitLoop"
  /\ IF unitIdx > Len(units) \/ stopRequested
       THEN /\ allPlugins' = Append(allPlugins,
                                    [name |-> DevNames[devIdx],
                                     plugins |-> developerPlugins,
                                     units |-> Len(units)])
            /\ devIdx' = devIdx + 1
            /\ pc' = "devLoop"
            /\ UNCHANGED batch
       ELSE /\ batch' = [k \in 1..Len(units[unitIdx].files) |->
                           processFileStart(units[unitIdx].files[k],
                                            developerFolders[devIdx])]
            /\ pc' = "batch"
            /\ UNCHANGED <<allPlugins, devIdx>>
  /\ UNCHANGED <<fs, writable, stopRequested, isScanning, units, unitIdx,
                 developerPlugins, lastCategorize, devLog, result, ioFailures,
                 scans, lost, stopClicked,
                 fn, app>>

\* fs.promises.access(developerPath, W_OK) of one processFile call settles
AccessDone(k) ==
  /\ pc = "batch"
  /\ k \in 1..Len(batch)
  /\ batch[k].st = "access"
  /\ batch' = [batch EXCEPT ![k] =
                 IF developerFolders[devIdx] \in CanWrite
                   THEN [@ EXCEPT !.st = "rename", !.calls = @ + 1]
                   ELSE permissionDenied(@)]
  /\ UNCHANGED <<fs, writable, stopRequested, isScanning, pc, devIdx, units,
                 unitIdx, developerPlugins, allPlugins, lastCategorize, devLog,
                 result, ioFailures, scans, lost, stopClicked,
                 fn, app>>

\* fs.promises.rename(filePath, newPath) of one processFile call settles;
\* it fails with ENOENT when the source is gone
RenameDone(k) ==
  /\ pc = "batch"
  /\ k \in 1..Len(batch)
  /\ batch[k].st = "rename"
  /\ IF Exists(fs, batch[k].path)
       THEN /\ fs' = Renamed(fs, batch[k].path, batch[k].newPath)
            /\ lost' = lost \cup
                 {[id |-> i, by |-> "processFile"] :
                    i \in Clobbered(fs, batch[k].path, batch[k].newPath)}
            /\ batch' = [batch EXCEPT ![k] =
                           [@ EXCEPT !.st = "fulfilled",
                                     !.value = batch[k].newPath,
                                     !.calls = @ + 1]]
       ELSE /\ batch' = [batch EXCEPT ![k] = renameFailed(@)]
            /\ UNCHANGED <<fs, lost>>
  /\ UNCHANGED <<writable, stopRequested, isScanning, pc, devIdx, units,
                 unitIdx, developerPlugins, allPlugins, lastCategorize, devLog,
                 result, ioFailures, scans, stopClicked,
                 fn, app>>

\* fs.promises.rename fails for another reason than permissions
RenameFails(k) ==
  /\ pc = "batch"
  /\ k \in 1..Len(batch)
  /\ batch[k].st = "rename"
  /\ ioFailures < MaxIOFailures
  /\ ioFailures' = ioFailures + 1
  /\ batch' = [batch EXCEPT ![k] = renameFailed(@)]
  /\ UNCHANGED <<fs, writable, stopRequested, isScanning, pc, devIdx, units,
                 unitIdx, developerPlugins, allPlugins, lastCategorize, devLog,
                 result, scans, lost, stopClicked,
                 fn, app>>

\* Promise.allSettled has settled: processAllFiles returns, the files are
\* categorized, and the entry for the developer log is issued
Categorize ==
  /\ pc = "batch"
  /\ BatchSettled
  /\ LET r == processAllFiles(batch) IN
       IF r.threw
         THEN /\ Finished(Threw("file"))
              /\ UNCHANGED <<fs, developerPlugins, lastCategorize, lost>>
         ELSE LET c == categorizeFiles(fs, CanWrite, r.processedFiles) IN
              /\ fs' = c.files
              /\ lost' = lost \cup {[id |-> i, by |-> "image"] : i \in c.lost}
              /\ developerPlugins' =
                   Append(developerPlugins,
                          [name |-> units[unitIdx].name, files |-> c.result,
                           \* history: some processFile call of the unit
                           \* ended without an error
                           ok |-> \E k \in 1..Len(batch) : batch[k].error = ""])
              /\ lastCategorize' =
                   [input |-> r.processedFiles, known |-> c.known,
                    result |-> c.result]
              /\ pc' = "log"
              /\ UNCHANGED <<result, isScanning>>
  /\ UNCHANGED <<writable, stopRequested, devIdx, units, unitIdx, batch,
                 allPlugins, devLog, ioFailures, scans, stopClicked,
                 fn, app>>

\* fs.promises.appendFile of createDeveloperLog settles
LogDone ==
  /\ pc = "log"
  /\ devLog' = [devLog EXCEPT ![developerFolders[devIdx]] =
                  Append(@, [plugin |-> units[unitIdx].name,
                             processed |-> Len(units[unitIdx].files),
                             renamed |->
                               [k \in 1..Len(units[unitIdx].files) |->
                                  units[unitIdx].files[k].name]])]
  /\ unitIdx' = unitIdx + 1
  /\ pc' = "unitLoop"
  /\ UNCHANGED <<fs, writable, stopRequested, isScanning, devIdx, units, batch,
                 developerPlugins, allPlugins, lastCategorize, result,
                 ioFailures, scans, lost, stopClicked,
                 fn, app>>

\* a createDeveloperLog without its catch clause: the error of appendFile
\* ends the scan
LogFailsUncaught ==
  /\ pc = "log"
  /\ IF developerFolders[devIdx] \in CanWrite
       THEN /\ ioFailures < MaxIOFailures
            /\ ioFailures' = ioFailures + 1
       ELSE UNCHANGED ioFailures
  /\ Finished(Threw("log"))
  /\ UNCHANGED <<fs, writable, stopRequested, devIdx, units, unitIdx, batch,
                 developerPlugins, allPlugins, lastCategorize, devLog,
                 scans, lost, stopClicked, fn, app>>

\* fs.promises.appendFile fails, as it may at any time in a folder that is
\* not writable; createDeveloperLog catches the error
LogFails ==
  /\ pc = "log"
  /\ IF developerFolders[devIdx] \in CanWrite
       THEN /\ ioFailures < MaxIOFailures
            /\ ioFailures' = ioFailures + 1
       ELSE UNCHANGED ioFailures
  /\ unitIdx' = unitIdx + 1
  /\ pc' = "unitLoop"
  /\ UNCHANGED <<fs, writable, stopRequested, isScanning, devIdx, units, batch,
                 developerPlugins, allPlugins, lastCategorize, devLog, result,
                 scans, lost, stopClicked,
                 fn, app>>

\* createMarkdownIndex has written Index.md, and writeFileSync has written
\* plugins-data.json
IndexDone ==
  /\ pc = "index"
  /\ pc' = "import"
  /\ UNCHANGED <<fs, writable, stopRequested, isScanning, devIdx, units,
                 unitIdx, batch, developerPlugins, allPlugins, lastCategorize,
                 devLog, result, ioFailures, scans, lost, stopClicked,
                 fn, app>>

\* mkdirSync or writeFile fails in createMarkdownIndex, whose catch clause
\* throws the error again
IndexFails ==
  /\ pc = "index"
  /\ ioFailures < MaxIOFailures
  /\ ioFailures' = ioFailures + 1
  /\ Finished(Threw("index"))
  /\ UNCHANGED <<fs, writable, stopRequested, devIdx, units, unitIdx, batch,
                 developerPlugins, allPlugins, lastCategorize, devLog, scans,
                 lost, stopClicked,
                 fn, app>>

\* Index.md is written, and writeFileSync of plugins-data.json throws
SnapshotFails ==
  /\ pc = "index"
  /\ ioFailures < MaxIOFailures
  /\ ioFailures' = ioFailures + 1
  /\ Finished(Threw("snapshot"))
  /\ UNCHANGED <<fs, writable, stopRequested, devIdx, units, unitIdx, batch,
                 developerPlugins, allPlugins, lastCategorize, devLog, scans,
                 lost, stopClicked,
                 fn, app>>

\* the number of plugin units of all developers, or of those with a zipFile
CountUnits(all, withZipOnly) ==
  Cardinality({ik \in (1..Len(all)) \X (1..MaxFiles) :
                 /\ ik[2] <= Len(all[ik[1]].plugins)
                 /\ withZipOnly => all[ik[1]].plugins[ik[2]].files.zipFile # <<>>})

\* the ScanResults that scanAndProcessPlugins returns
ScanResults ==
  [kind |-> "returned", cause |-> "",
   developers |-> Len(allPlugins),
   plugins |-> CountUnits(allPlugins, FALSE),
   zips |-> CountUnits(allPlugins, TRUE),
   stopped |-> stopRequested]

\* importMarkdownIndex settles, with or without an error, and the counts are
\* returned
ImportDone ==
  /\ pc = "import"
  /\ Finished(ScanResults)
  /\ UNCHANGED <<fs, writable, stopRequested, devIdx, units, unitIdx, batch,
                 developerPlugins, allPlugins, lastCategorize, devLog,
                 ioFailures, scans, lost, stopClicked,
                 fn, app>>

\* importMarkdownIndex fails; the error is caught and the counts are returned
ImportFails ==
  /\ pc = "import"
  /\ ioFailures < MaxIOFailures
  /\ ioFailures' = ioFailures + 1
  /\ Finished(ScanResults)
  /\ UNCHANGED <<fs, writable, stopRequested, devIdx, units, unitIdx, batch,
                 developerPlugins, allPlugins, lastCategorize, devLog, scans,
                 lost, stopClicked,
                 fn, app>>

Next ==
  \/ StartScan
  \/ StartScanRootUnreadable
  \/ RequestStop
  \/ DevLoop
  \/ UnitLoop
  \/ \E k \in 1..MaxFiles : AccessDone(k)
  \/ \E k \in 1..MaxFiles : RenameDone(k)
  \/ \E k \in 1..MaxFiles : RenameFails(k)
  \/ Categorize
  \/ LogDone
  \/ LogFails
  \/ IndexDone
  \/ IndexFails
  \/ SnapshotFails
  \/ ImportDone
  \/ ImportFails

Spec == Init /\ [][Next]_vars

(***************************************************************************)
(* Properties of the scan                                                  *)
(***************************************************************************)
\* the name processFile computes for a file of the current developer folder
ComputedName(filePath) ==
  normalizePluginFileName(parseFileName(filePath.name), developerFolders[devIdx])

\* a processFile call of the batch has ended
Ended(entry) == entry.st \in {"fulfilled", "rejected"}

\* a processFile call of the batch has renamed its file
HasRenamed(entry) ==
  entry.st = "fulfilled" /\ entry.error = "" /\ entry.calls = 2

\* C1: a rename by processFile never overwrites an existing file: no file is
\* ever destroyed by a processFile rename, so the file that was at the target
\* and the renamed file are both present afterwards.
C1_NoOverwrite == \A l \in lost : l.by # "processFile"

\* the five slots of a PluginFiles record as one sequence of paths
SlotPaths(r) ==
  r.zipFile \o r.executableFile \o r.documentationFiles \o r.imageFiles
    \o r.otherFiles

\* C2: every path given to categorizeFiles (an image that was renamed under
\* its new path) appears exactly once in the five slots of the record
\* returned, also when the input holds several .zip or several .exe files.
C2_EveryInputInOneSlot ==
  \A i \in 1..Len(lastCategorize.known) :
    Cardinality({k \in 1..Len(SlotPaths(lastCategorize.result)) :
                   SlotPaths(lastCategorize.result)[k] = lastCategorize.known[i]}) = 1

\* C5: a stop request changes nothing but the flag, the wait for a batch ends
\* only when every processFile call of the unit has ended, each file whose
\* name had to change having had its rename attempted, and the scan is never
\* past a batch with a call of it still waiting.
C5_StopAtLoopBoundary ==
  /\ [](pc # "batch" => \A k \in 1..Len(batch) : Ended(batch[k]))
  /\ [][/\ stopRequested' # stopRequested
             => UNCHANGED <<pc, batch, fs, devIdx, unitIdx, units>>
        /\ (pc = "batch" /\ pc' # "batch")
             => \A k \in 1..Len(batch) :
                  /\ Ended(batch[k])
                  /\ batch[k].path.name # ComputedName(batch[k].path)
                       => batch[k].calls >= 1]_vars

\* a stop was requested while a batch of two files was waiting, and both
\* files have been renamed all the same
C5_Witness ==
  /\ pc = "batch"
  /\ stopRequested
  /\ scans = 1
  /\ Len(batch) = 2
  /\ \A k \in 1..Len(batch) : HasRenamed(batch[k])

\* C6: two distinct files of one plugin unit never get the same rename
\* target.
C6_DistinctTargets ==
  pc = "batch" =>
    \A j, k \in 1..Len(batch) : j # k => batch[j].newPath # batch[k].newPath

\* C7: a failed rename never ends the scan, and when the wait for a batch
\* ends every call of it has ended, the outcome of every fulfilled call is
\* handed on to categorizeFiles, and the scan goes on to the log entry of
\* the unit and from there to the next unit.
C7_FailureIsolated ==
  /\ [](result.cause # "file")
  /\ [][(pc = "batch" /\ pc' # "batch")
          => /\ pc' = "log"
             /\ \A k \in 1..Len(batch) : Ended(batch[k])
             /\ lastCategorize'.input =
                  LET done == SelectSeq(batch, LAMBDA e : e.st = "fulfilled")
                  IN [k \in 1..Len(done) |-> done[k].value]]_vars

\* the rename of one file of a unit failed, the other file of the unit was
\* renamed, and the scan is at the log entry of the unit
C7_Witness ==
  /\ pc = "log"
  /\ \E j, k \in 1..Len(batch) :
       /\ j # k
       /\ batch[j].error # ""
       /\ HasRenamed(batch[k])

C9_NoOpWhenCanonical ==
  pc \in {"batch", "log"} =>
    \A k \in 1..Len(batch) :
      batch[k].path.name = ComputedName(batch[k].path)
        => /\ batch[k].st = "fulfilled"
           /\ batch[k].value = batch[k].path
           /\ batch[k].calls = 0
           /\ batch[k].error = ""

\* a batch holds a file whose name is already the computed one
C9_Witness ==
  /\ pc = "batch"
  /\ \E k \in 1..Len(batch) :
       /\ batch[k].path.name = ComputedName(batch[k].path)
       /\ batch[k].st = "fulfilled"
       /\ Exists(fs, batch[k].path)

\* C10: scanAndProcessPlugins fails only when the main folder is missing or
\* unreadable.
C10_OnlyRootAborts == result.kind = "threw" => result.cause = "root"

\* the developer folders whose unit loop ran to its end
CompleteFolders == {i \in 1..Len(allPlugins) :
                      Len(allPlugins[i].plugins) = allPlugins[i].units}

\* the units of which at least one file was processed without an error
SuccessfulUnits ==
  {ik \in (1..Len(allPlugins)) \X (1..MaxFiles) :
     /\ ik[2] <= Len(allPlugins[ik[1]].plugins)
     /\ allPlugins[ik[1]].plugins[ik[2]].ok}

\* C11: the counts returned count only the developer folders and plugin units
\* that were processed successfully: a developer folder whose unit loop a stop
\* cut short is not counted as a developer, and a unit none of whose files
\* was processed without an error is not counted as a plugin or as a zip.
C11_CountsOnlySuccessful ==
  result.kind = "returned" =>
    /\ result.developers = Cardinality(CompleteFolders)
    /\ result.plugins = Cardinality(SuccessfulUnits)
    /\ result.zips <= Cardinality(SuccessfulUnits)

\* C12: the stopped flag of the results is true exactly when the scan was cut
\* short, a developer folder or a unit having been left unprocessed because of
\* the stop; a scan that processed every unit of every developer folder
\* returns stopped = false.
C12_StoppedIffCutShort ==
  result.kind = "returned" =>
    (result.stopped <=>
       ~ /\ Len(allPlugins) = Len(developerFolders)
         /\ CompleteFolders = 1..Len(allPlugins))

\* C13: every rename that succeeded is recorded by one entry of
\* _developer_changes.log, and a file that was not renamed (its name was
\* already the computed one, or its rename failed) is not recorded as renamed:
\* when the log entry of a unit of the first scan has been written, the names
\* it lists as renamed are those of the files of the unit that were renamed.
C13_LogRecordsRenames ==
  (pc = "unitLoop" /\ unitIdx > 1 /\ scans = 1) =>
    LET log == devLog[developerFolders[devIdx]]
        done == SelectSeq(batch, HasRenamed)
    IN  (Len(log) > 0 /\ log[Len(log)].plugin = units[unitIdx - 1].name) =>
          log[Len(log)].renamed = [k \in 1..Len(done) |-> done[k].path.name]

\* C18: a failure to append to _developer_changes.log never fails the rename,
\* never undoes it and never ends the scan: the step that leaves the log
\* write without an entry written changes no file, no result of the unit's
\* processFile calls and nothing of what the scan has collected, the scan is
\* still running, and it is at the head of the unit loop with the next unit.
C18_LogFailureHarmless ==
  [][(pc = "log" /\ pc' # "log" /\ devLog' = devLog)
       => /\ pc' = "unitLoop"
          /\ unitIdx' = unitIdx + 1
          /\ isScanning'
          /\ UNCHANGED <<fs, lost, batch, developerPlugins, allPlugins,
                         result, devIdx, units>>]_vars

\* the log entry of the first unit of a folder could not be written in the
\* first scan, a file of that unit was renamed and is at its new path, and
\* the scan, not stopped, is at the head of the unit loop with a second unit
C18_Witness ==
  /\ pc = "unitLoop"
  /\ scans = 1
  /\ ~stopRequested
  /\ unitIdx = 2
  /\ Len(units) >= 2
  /\ devLog[developerFolders[devIdx]] = <<>>
  /\ \E k \in 1..Len(batch) :
       HasRenamed(batch[k]) /\ Exists(fs, batch[k].newPath)

\* /^[a-zA-Z0-9\s\-_.]+$/: the names the older processPlugin accepts
ValidName(s) ==
  /\ s # <<>>
  /\ \A k \in 1..Len(s) :
       IsAlnum(s[k]) \/ IsSpace(s[k]) \/ s[k] \in {"-", "_", "."}

\* C19: a unit whose plugin name or developer name holds a character outside
\* letters, digits, white space, "-", "_" and "." is rejected before a rename
\* is attempted: for none of its files is a rename issued, and none of them
\* is renamed.
C19_InvalidNameRejected ==
  (pc \in {"batch", "log"}
     /\ ~(ValidName(units[unitIdx].name) /\ ValidName(DevNames[devIdx])))
  => \A k \in 1..Len(batch) :
       batch[k].st # "rename" /\ batch[k].calls < 2

\* C20: a stop request affects only the scan in progress: a scan during
\* which no stop was requested, also one started after a stopped scan has
\* returned, processes every developer folder to its end and returns
\* stopped = false.
C20_StopOnlyCurrentScan ==
  (pc = "idle" /\ result.kind = "returned" /\ ~stopClicked)
  => /\ ~result.stopped
     /\ Len(allPlugins) = Len(developerFolders)
     /\ CompleteFolders = 1..Len(allPlugins)

\* C21: every file of a plugin unit is handed to categorizeFiles whether or
\* not its rename succeeded, a file whose rename failed (for lack of
\* permission too) under its original path: when a unit has been categorized,
\* the paths handed over are as many as the files of the unit, and the path
\* of a file that was not renamed is its original path.
C21_EveryFileCategorized ==
  pc = "log" =>
    /\ Len(lastCategorize.input) = Len(units[unitIdx].files)
    /\ \A k \in 1..Len(batch) :
         ~HasRenamed(batch[k]) =>
           \E i \in 1..Len(lastCategorize.input) :
             lastCategorize.input[i] = batch[k].path

\* C25: when the files given to categorizeFiles hold several .zip files,
\* zipFile is the first of them in input order, and when they hold several
\* .exe or .msi files, executableFile is the first of them in input order.
C25_FirstInstallerWins ==
  LET input == lastCategorize.input
      zips == SelectSeq(input, LAMBDA f : LowerExt(f) = <<".","z","i","p">>)
      exes == SelectSeq(input, LAMBDA f :
                LowerExt(f) \in { <<".","e","x","e">>, <<".","m","s","i">> })
  IN /\ zips # <<>> => lastCategorize.result.zipFile = <<zips[1]>>
     /\ exes # <<>> => lastCategorize.result.executableFile = <<exes[1]>>

\* C26: the files grouped into one plugin unit lie directly in the developer
\* folder and have the same derived base name, so that a rename never moves
\* a file to another directory: every file of the unit being processed has
\* the developer folder as its directory and the unit's name as its grouping
\* key, and the path processFile renames it to is in the file's directory.
C26_UnitInDeveloperFolder ==
  pc \in {"batch", "log"} =>
    \A k \in 1..Len(batch) :
      /\ batch[k].path.dir = developerFolders[devIdx]
      /\ getPluginBaseName(batch[k].path.name, DevNames[devIdx])
           = units[unitIdx].name
      /\ batch[k].newPath.dir = batch[k].path.dir

\* C27: within a scan the developer folders are processed one after another
\* in listing order, and the units of a folder one at a time: outside the
\* wait for a unit's batch no processFile call is pending; the scan moves to
\* the next folder only from the head of the unit loop and to the next unit
\* only when the log write of the current one has settled; and a step that
\* changes a file or a log changes only files and the log of the developer
\* folder the scan is at.
C27_OneFolderAtATime ==
  /\ [](pc # "batch" => \A k \in 1..Len(batch) : Ended(batch[k]))
  /\ [][/\ (devIdx' # devIdx) =>
             (\/ pc = "idle" /\ devIdx' = 1
              \/ pc = "unitLoop" /\ devIdx' = devIdx + 1)
        /\ (unitIdx' # unitIdx) =>
             (\/ pc = "devLoop" /\ unitIdx' = 1
              \/ pc = "log" /\ unitIdx' = unitIdx + 1)
        /\ (fs' # fs \/ devLog' # devLog) =>
             (/\ pc \in {"batch", "log"}
              /\ \A d \in DevFolderSet :
                   (d # developerFolders[devIdx]) => (devLog'[d] = devLog[d])
              /\ \A f \in (fs' \ fs) \cup (fs \ fs') :
                   DevOf(f.dir) = developerFolders[devIdx])]_vars

\* a rename in the second developer folder is pending, the units of the
\* first folder having been renamed and logged
C27_Witness ==
  /\ pc = "batch"
  /\ devIdx = 2
  /\ devLog[developerFolders[1]] # <<>>
  /\ \E f \in fs : f.dir = developerFolders[1] /\ PathOf(f) # Candidates[f.id]
  /\ \E k \in 1..Len(batch) : batch[k].st = "rename"

(***************************************************************************)
(* FileRenamer.parseFileName and FileRenamer.normalizePluginFileName       *)
(* applied to one file name, as processFile and the next scan apply them   *)
(***************************************************************************)
\* bound: the words of a file name
MaxWords == 3

Words ==
  { <<"D","e","v">>, <<"N">>, <<"I">>, <<"K">>, <<"x","6","4">>,
    <<"x","8","6">>, <<"v","1">> }

Separators == { <<" ">>, <<"_">>, <<" ","-"," ">> }

Exe == <<".","e","x","e">>

\* the base names of 1..n words with a separator between two words
RECURSIVE Phrases(_)
Phrases(n) ==
  IF n = 1 THEN Words
  ELSE Phrases(n - 1) \cup
       {p \o sep \o w : p \in Phrases(n - 1), sep \in Separators, w \in Words}

\* the names "<d> - <pluginName>[ <platform>][ <version>]<ext>" of a
\* developer folder name d
CanonicalNames(d) ==
  {d \o <<" ","-"," ">> \o pluginName \o platform \o version \o Exe :
     pluginName \in { <<"K">>, <<"F","o","o">>, <<"F","o","o"," ","K">> },
     platform \in { <<>>, <<" ","x","6","4">> },
     version \in { <<>>, <<" ","v","1">>, <<" ","1",".","0">> }}

\* f(x) = normalizePluginFileName(parseFileName(x), d)
Canonical(x, d) == normalizePluginFileName(parseFileName(x), d)

\* further file names with their developer folders: vendor installers,
\* a plugin with its screenshot, a name with every part, and names without
\* a letter, an extension or any character at all
ExampleInputs ==
  { [x |-> <<"F","a","b","F","i","l","t","e","r","_","P","r","o","Q","3","_","v","3",".","2","1","_","x","6","4","_","S","e","t","u","p",".","e","x","e">>,
     d |-> <<"/","m","/","F","a","b","F","i","l","t","e","r">>],
    [x |-> <<"W","a","v","e","s"," ","-"," ","S","S","L","C","h","a","n","n","e","l"," ","v","1",".","0",".","v","s","t","3">>,
     d |-> <<"/","m","/","W","a","v","e","s">>],
    [x |-> <<"W","a","v","e","s","_","S","S","L","C","h","a","n","n","e","l","_","v","1",".","0","_","s","c","r","e","e","n","s","h","o","t",".","p","n","g">>,
     d |-> <<"/","m","/","W","a","v","e","s">>],
    [x |-> <<"D","e","v"," ","K"," ","x","6","4"," ","v","1"," ","S","e","t","u","p",".","e","x","e">>,
     d |-> <<"/","m","/","N"," ","I">>],
    [x |-> <<"1",".","2",".","3",".","e","x","e">>,
     d |-> <<"/","m","/","D","e","v">>],
    [x |-> <<"v","2",".","e","x","e">>,
     d |-> <<"/","m","/","D","e","v">>],
    [x |-> <<>>,
     d |-> <<"/","m","/","D","e","v">>],
    [x |-> <<".">>,
     d |-> <<"/","m","/","D","e","v">>],
    [x |-> <<"-">>,
     d |-> <<"/","m","/","D","e","v">>],
    [x |-> <<"_","-","_">>,
     d |-> <<"/","m","/","D","e","v">>],
    [x |-> <<".",".",".">>,
     d |-> <<"/","m","/","D","e","v">>],
    [x |-> <<"K">>,
     d |-> <<"/","m","/","D","e","v">>],
    [x |-> <<"+"," ","!">>,
     d |-> <<"/","m","/","D","e","v">>] }

\* the file names and developer folders the renaming is applied to
RenameInputs ==
  UNION {{[x |-> x, d |-> d] :
            x \in {p \o Exe : p \in Phrases(MaxWords)}
                    \cup CanonicalNames(PathBaseName(d))} :
         d \in DevFolderSet}
  \cup ExampleInputs

RenameInit ==
  /\ \E i \in RenameInputs :
       fn = [stage |-> "name", x |-> i.x, d |-> i.d, y |-> <<>>, z |-> <<>>,
             key |-> <<>>,
             parsed |-> [developer |-> <<>>, pluginName |-> <<>>,
                         platform |-> <<>>, version |-> <<>>,
                         suffix |-> <<>>, extension |-> <<>>]]
  /\ fs = {}
  /\ writable = [d \in DevFolderSet |-> TRUE]
  /\ stopRequested = FALSE
  /\ isScanning = FALSE
  /\ pc = "idle"
  /\ devIdx = 0
  /\ units = <<>>
  /\ unitIdx = 0
  /\ batch = <<>>
  /\ developerPlugins = <<>>
  /\ allPlugins = <<>>
  /\ lastCategorize = NoCategorize
  /\ devLog = [d \in DevFolderSet |-> <<>>]
  /\ result = NoResult
  /\ ioFailures = 0
  /\ scans = 0
  /\ lost = {}
  /\ stopClicked = FALSE
  /\ app = AppLoaded

\* the name a scan computes for the file
FirstScanName ==
  /\ fn.stage = "name"
  /\ fn' = [fn EXCEPT !.stage = "once",
                       !.key = getPluginBaseName(fn.x, PathBaseName(fn.d)),
                       !.parsed = parseFileName(fn.x),
                       !.y = Canonical(fn.x, fn.d)]
  /\ UNCHANGED scanVars

\* the name the next scan computes for the file as the first one named it
SecondScanName ==
  /\ fn.stage = "once"
  /\ fn' = [fn EXCEPT !.stage = "twice", !.z = Canonical(fn.y, fn.d)]
  /\ UNCHANGED scanVars

NextRename == FirstScanName \/ SecondScanName

SpecRename == RenameInit /\ [][NextRename]_vars

\* C3: the name computed for a file that carries a computed name is that
\* name again: f(f(x)) = f(x).
C3_RoundTripStable == fn.stage = "twice" => fn.z = fn.y

\* C4: the name computed for a file with a name of the canonical form is
\* that name: f(N) = N.
C4_CanonicalIsFixed ==
  (fn.stage # "name" /\ fn.x \in CanonicalNames(PathBaseName(fn.d)))
    => fn.y = fn.x


\* C14: parseFileName("FabFilter_ProQ3_v3.21_x64_Setup.exe") yields developer
\* "FabFilter", pluginName "ProQ3", platform "x64", version "3.21", suffix
\* "Setup" and extension ".exe", and the name computed for it in the folder
\* "FabFilter" is "FabFilter - ProQ3 x64 3.21.exe".
C14_FabFilterExample ==
  (fn.stage # "name"
     /\ fn.x = <<"F","a","b","F","i","l","t","e","r","_","P","r","o","Q","3","_","v","3",".","2","1","_","x","6","4","_","S","e","t","u","p",".","e","x","e">>
     /\ fn.d = <<"/","m","/","F","a","b","F","i","l","t","e","r">>)
  => /\ fn.parsed = [developer |-> <<"F","a","b","F","i","l","t","e","r">>,
                     pluginName |-> <<"P","r","o","Q","3">>,
                     platform |-> <<"x","6","4">>,
                     version |-> <<"3",".","2","1">>,
                     suffix |-> <<"S","e","t","u","p">>,
                     extension |-> <<".","e","x","e">>]
     /\ fn.y = <<"F","a","b","F","i","l","t","e","r"," ","-"," ","P","r","o","Q","3"," ","x","6","4"," ","3",".","2","1",".","e","x","e">>

\* C15: the grouping key drops the developer prefix "<folder> - " or
\* "<folder>_" whatever its case: in the folder "Waves" both
\* "Waves - SSLChannel v1.0.vst3" and "Waves_SSLChannel_v1.0_screenshot.png"
\* get the key "SSLChannel" and so form one unit.
C15_WavesOneUnit ==
  (fn.stage # "name"
     /\ fn.d = <<"/","m","/","W","a","v","e","s">>
     /\ fn.x \in {<<"W","a","v","e","s"," ","-"," ","S","S","L","C","h","a","n","n","e","l"," ","v","1",".","0",".","v","s","t","3">>,
                  <<"W","a","v","e","s","_","S","S","L","C","h","a","n","n","e","l","_","v","1",".","0","_","s","c","r","e","e","n","s","h","o","t",".","p","n","g">>})
  => fn.key = <<"S","S","L","C","h","a","n","n","e","l">>

\* C16: the computed name is the base name of the developer folder, " - ",
\* the parsed pluginName, then " " and the platform if there is one, then " "
\* and the version if there is one, then the extension; the parsed developer
\* and the suffix are not part of it.
C16_NameLayout ==
  fn.stage # "name" =>
    fn.y = PathBaseName(fn.d) \o <<" ","-"," ">> \o fn.parsed.pluginName
             \o (IF fn.parsed.platform = <<>> THEN <<>>
                 ELSE <<" ">> \o fn.parsed.platform)
             \o (IF fn.parsed.version = <<>> THEN <<>>
                 ELSE <<" ">> \o fn.parsed.version)
             \o fn.parsed.extension

\* a name with a platform, a version, a suffix and a developer other than
\* the folder's has been given its computed name
C16_Witness ==
  /\ fn.stage = "once"
  /\ fn.parsed.platform # <<>>
  /\ fn.parsed.version # <<>>
  /\ fn.parsed.suffix # <<>>
  /\ fn.parsed.developer \notin {<<>>, PathBaseName(fn.d)}

\* C17: parseFileName is total: for every name, the empty one and those
\* without an extension or a letter included, it returns a record of the six
\* fields, each a string no longer than the name, and a part that cannot have
\* matched is the empty string: no platform, version or suffix without a
\* blank before it, no developer without a separator after it, no extension
\* without a dot.
C17_ParseTotal ==
  fn.stage # "name" =>
    /\ DOMAIN fn.parsed = {"developer", "pluginName", "platform", "version",
                           "suffix", "extension"}
    /\ \A f \in DOMAIN fn.parsed :
         /\ DOMAIN fn.parsed[f] = 1..Len(fn.parsed[f])
         /\ Len(fn.parsed[f]) <= Len(fn.x)
    /\ (\A k \in 1..Len(fn.x) : ~IsSpace(fn.x[k])) =>
         /\ fn.parsed.platform = <<>>
         /\ fn.parsed.version = <<>>
         /\ fn.parsed.suffix = <<>>
    /\ (\A k \in 1..Len(fn.x) : ~IsSpace(fn.x[k]) /\ fn.x[k] \notin {"-", "_"}) =>
         fn.parsed.developer = <<>>
    /\ (\A k \in 1..Len(fn.x) : fn.x[k] # ".") => fn.parsed.extension = <<>>

\* the empty name, and a name of punctuation only, have been parsed
C17_Witness ==
  /\ fn.stage = "once"
  /\ fn.x \in {<<>>, <<".",".",".">>}
  /\ fn.parsed.developer = <<>>
  /\ fn.parsed.suffix = <<>>

(***************************************************************************)
(* The plugin: AudioPluginManager.onload, the settings tab, the command    *)
(* "Scan Audio Plugins", the view's button and scanPlugins; a call of      *)
(* scanAndProcessPlugins is in flight from its readdirSync to its return    *)
(***************************************************************************)
\* bound: the scanPlugins calls
MaxCalls == 3

\* a path at which there is no folder
MissingFolder == <<"/", "g">>

\* the values of the setting mainFolder: the default '', a folder, no folder
MainFolderValues == {<<>>, MainFolder, MissingFolder}

\* fs.existsSync and fs.readdirSync of the setting succeed for the folder only
existsSync(p) == p = MainFolder

\* what no step of the plugin changes
scanFrame == <<fs, writable, pc, devIdx, units, unitIdx, batch,
               developerPlugins, allPlugins, lastCategorize, devLog, result,
               ioFailures, scans, lost, fn>>

\* before onload, with the settings as loadSettings will find them
PluginInit ==
  /\ \E m \in MainFolderValues :
       app = [AppLoaded EXCEPT !.loaded = "no", !.registered = {},
                               !.mainFolder = m]
  /\ fs = {}
  /\ writable = [d \in DevFolderSet |-> TRUE]
  /\ stopRequested = FALSE
  /\ isScanning = FALSE
  /\ pc = "idle"
  /\ devIdx = 0
  /\ units = <<>>
  /\ unitIdx = 0
  /\ batch = <<>>
  /\ developerPlugins = <<>>
  /\ allPlugins = <<>>
  /\ lastCategorize = NoCategorize
  /\ devLog = [d \in DevFolderSet |-> <<>>]
  /\ result = NoResult
  /\ ioFailures = 0
  /\ scans = 0
  /\ lost = {}
  /\ stopClicked = FALSE
  /\ fn = FnIdle

\* onload: the PluginScanner constructor throws when the main folder does
\* not exist, and nothing after it is run
OnLoad ==
  /\ app.loaded = "no"
  /\ app' = IF existsSync(app.mainFolder)
              THEN [app EXCEPT !.loaded = "ok", !.registered = Registered]
              ELSE [app EXCEPT !.loaded = "failed"]
  /\ UNCHANGED <<stopRequested, isScanning, stopClicked, scanFrame>>

\* the settings tab's "Main Folder" field: the setting is changed and the
\* settings are saved
SetMainFolder(value) ==
  /\ "settingTab" \in app.registered
  /\ value # app.mainFolder
  /\ app' = [app EXCEPT !.mainFolder = value, !.savedDate = app.lastScanDate]
  /\ UNCHANGED <<stopRequested, isScanning, stopClicked, scanFrame>>

\* scanPlugins up to the first wait of scanAndProcessPlugins: refused without
\* a main folder, ended by the catch clause when readdirSync throws, and
\* otherwise in flight
scanPluginsStart(a, via) ==
  IF a.mainFolder = <<>>
    THEN [a EXCEPT !.calls = @ + 1,
                   !.last = [NoCall EXCEPT !.outcome = "refused", !.via = via,
                                           !.before = a.lastScanDate]]
  ELSE IF ~existsSync(a.mainFolder)
    THEN [a EXCEPT !.calls = @ + 1,
                   !.last = [NoCall EXCEPT !.outcome = "threw", !.via = via,
                                           !.folder = a.mainFolder,
                                           !.touched = TRUE,
                                           !.before = a.lastScanDate]]
  ELSE [a EXCEPT !.calls = @ + 1,
                 !.running = @ \cup {[id |-> a.calls + 1, via |-> via]}]

\* a scanPlugins that takes every result that is returned as a full scan
updatesDateAlways(threw, stopped) == ~threw

\* "if (!results.stopped)" of scanPlugins, reached when nothing was thrown
updatesDate(threw, stopped) == ~threw /\ ~stopped

\* scanPlugins from the return of scanAndProcessPlugins on: the date is set
\* and the settings are saved if the scan was not stopped; an error, of the
\* scan or of saveSettings, ends in the catch clause
scanPluginsEnd(a, s, threw, stopped, saveOk) ==
  [a EXCEPT
     !.running = @ \ {s},
     !.lastScanDate = IF updatesDate(threw, stopped) THEN @ + 1 ELSE @,
     !.savedDate = IF updatesDate(threw, stopped) /\ saveOk
                     THEN a.lastScanDate + 1 ELSE @,
     !.last = [outcome |-> IF threw THEN "threw" ELSE "returned",
               via |-> s.via, folder |-> MainFolder,
               stopped |-> ~threw /\ stopped, touched |-> TRUE,
               before |-> a.lastScanDate,
               saveFailed |-> updatesDate(threw, stopped) /\ ~saveOk]]

\* the command "Scan Audio Plugins": scanPlugins is called
CommandScan ==
  /\ "commands" \in app.registered
  /\ app.calls < MaxCalls
  /\ app' = scanPluginsStart(app, "command")
  /\ UNCHANGED <<stopRequested, isScanning, stopClicked, scanFrame>>

\* a click on the view's button: a stop request while the view has a scan
\* running, and a scanPlugins call otherwise
ViewClick ==
  /\ "view" \in app.registered
  /\ IF isScanning
       THEN /\ ~stopClicked
            /\ stopRequested' = TRUE
            /\ stopClicked' = TRUE
            /\ UNCHANGED <<app, isScanning>>
       ELSE /\ app.calls < MaxCalls
            /\ app' = scanPluginsStart(app, "view")
            /\ isScanning' = (app'.running # app.running)
            /\ UNCHANGED <<stopRequested, stopClicked>>
  /\ UNCHANGED scanFrame

\* a button handler that resets isScanning after the await instead of in a
\* finally clause, and so not when the scan has failed
ScanSettlesNoFinally(s, threw, saveOk) ==
  /\ s \in app.running
  /\ saveOk \/ updatesDate(threw, stopRequested)
  /\ app' = scanPluginsEnd(app, s, threw, stopRequested, saveOk)
  /\ IF s.via = "view" /\ ~threw
       THEN isScanning' = FALSE /\ stopClicked' = FALSE
       ELSE UNCHANGED <<isScanning, stopClicked>>
  /\ UNCHANGED <<stopRequested, scanFrame>>

\* a scanAndProcessPlugins call in flight returns, with the stop flag as it
\* stands, or throws; scanPlugins ends, and the view's finally clause is run
\* if the call was the view's
ScanSettles(s, threw, saveOk) ==
  /\ s \in app.running
  /\ saveOk \/ updatesDate(threw, stopRequested)
  /\ app' = scanPluginsEnd(app, s, threw, stopRequested, saveOk)
  /\ IF s.via = "view"
       THEN isScanning' = FALSE /\ stopClicked' = FALSE
       ELSE UNCHANGED <<isScanning, stopClicked>>
  /\ UNCHANGED <<stopRequested, scanFrame>>

NextPlugin ==
  \/ OnLoad
  \/ \E value \in MainFolderValues : SetMainFolder(value)
  \/ CommandScan
  \/ ViewClick
  \/ \E id \in 1..MaxCalls, via \in {"command", "view"},
          threw \in BOOLEAN, saveOk \in BOOLEAN :
       ScanSettles([id |-> id, via |-> via], threw, saveOk)

SpecPlugin == PluginInit /\ [][NextPlugin]_vars

\* C22: at most one scan runs at a time on the plugin's PluginScanner: a scan
\* asked for through the command or the view's button while another one is
\* in progress does not run together with it.
C22_OneScanAtATime == Cardinality(app.running) <= 1

\* C24: onload completes, with the settings tab, the view and the commands
\* registered, also when the main folder setting is empty or names no folder;
\* and a scanPlugins call made with such a setting is refused with zero
\* counts and stopped = false, without the file system being touched.
C24_LoadCompletes ==
  /\ app.loaded # "no" =>
       app.loaded = "ok" /\ app.registered = Registered
  /\ (app.last.outcome # "none" /\ app.last.folder # MainFolder) =>
       /\ app.last.outcome = "refused"
       /\ ~app.last.stopped
       /\ ~app.last.touched

MaxUnitFiles == 3

\* the names of two plugin units once processFile has renamed their files
\* (before it: "x64.exe", "Setup.png", "PC.png", ... and "Foo.exe", ...)
UnitNames ==
  << << <<"D","e","v"," ","-"," ","x","6","4",".","e","x","e">>,
     <<"D","e","v"," ","-"," ","S","e","t","u","p",".","p","n","g">>,
     <<"D","e","v"," ","-"," ","P","C",".","p","n","g">>,
     <<"D","e","v"," ","-"," ","v","1",".","p","n","g">>,
     <<"D","e","v"," ","-"," ","W","i","n","d","o","w","s",".","p","n","g">> >>,
     << <<"D","e","v"," ","-"," ","F","o","o",".","e","x","e">>,
     <<"D","e","v"," ","-"," ","F","o","o",".","p","n","g">>,
     <<"D","e","v"," ","-"," ","F","o","o",".","z","i","p">>,
     <<"D","e","v"," ","-"," ","F","o","o"," ","v","1",".","z","i","p">> >> >>

\* the files of unit u picked by S, in listing order, in the first
\* developer folder
UnitFiles(u, S) ==
  {[dir |-> developerFolders[1], name |-> UnitNames[u][i], id |-> i] : i \in S}

CategorizeInit ==
  /\ \E u \in 1..Len(UnitNames) :
       \E S \in SUBSET (1..Len(UnitNames[u])) :
         /\ S # {}
         /\ Cardinality(S) <= MaxUnitFiles
         /\ fs = UnitFiles(u, S)
  /\ writable \in [DevFolderSet -> BOOLEAN]
  /\ writable[developerFolders[2]]
  /\ lastCategorize = NoCategorize
  /\ lost = {}
  /\ fn = [stage |-> "files"]
  /\ stopRequested = FALSE
  /\ isScanning = FALSE
  /\ pc = "idle"
  /\ devIdx = 1
  /\ units = <<>>
  /\ unitIdx = 0
  /\ batch = <<>>
  /\ developerPlugins = <<>>
  /\ allPlugins = <<>>
  /\ devLog = [d \in DevFolderSet |-> <<>>]
  /\ result = NoResult
  /\ ioFailures = 0
  /\ scans = 0
  /\ stopClicked = FALSE
  /\ app = AppLoaded

\* categorizeFiles(processedFiles, pluginName, developerPath)
CategorizeUnit ==
  /\ fn.stage = "files"
  /\ LET input == [k \in 1..Len(Listing(fs)) |-> PathOf(Listing(fs)[k])]
         c == categorizeFiles(fs, CanWrite, input)
     IN /\ fs' = c.files
        /\ lost' = {[id |-> i, by |-> "image"] : i \in c.lost}
        /\ lastCategorize' = [input |-> input, known |-> c.known,
                              result |-> c.result]
  /\ fn' = [stage |-> "categorized"]
  /\ UNCHANGED <<writable, stopRequested, isScanning, pc, devIdx, units,
                 unitIdx, batch, developerPlugins, allPlugins, devLog, result,
                 ioFailures, scans, stopClicked, app>>

SpecCategorize == CategorizeInit /\ [][CategorizeUnit]_vars

\* C23: the image renames of categorizeFiles never overwrite an existing
\* file and never give two images the same path: no file is destroyed by an
\* image rename, and afterwards the paths in imageFiles are pairwise distinct
\* and each is the path of an existing file.
C23_ImageRenamesSafe ==
  fn.stage = "categorized" =>
    /\ lost = {}
    /\ \A j, k \in 1..Len(lastCategorize.result.imageFiles) :
         j # k => lastCategorize.result.imageFiles[j]
                    # lastCategorize.result.imageFiles[k]
    /\ \A k \in 1..Len(lastCategorize.result.imageFiles) :
         Exists(fs, lastCategorize.result.imageFiles[k])

\* C28: from the view at most one scan is in flight: isScanning is true
\* exactly while a scanPlugins call of the view is in flight, of which there
\* is never more than one; a click while isScanning is true sets the stop
\* flag and starts nothing; and isScanning is false again once the view's
\* scan has settled, whether it completed, was stopped or failed.
C28_OneViewScan ==
  /\ [](/\ Cardinality({s \in app.running : s.via = "view"}) <= 1
        /\ isScanning <=> \E s \in app.running : s.via = "view")
  /\ [][(isScanning /\ stopClicked' /\ ~stopClicked)
          => (app' = app /\ stopRequested' /\ isScanning')]_vars
  /\ [][(app'.last # app.last /\ app'.last.via = "view")
          => ~isScanning']_vars

\* the view's scan was stopped by a click and has returned, and isScanning
\* is false
C28_Witness ==
  /\ app.last.via = "view"
  /\ app.last.outcome = "returned"
  /\ app.last.stopped
  /\ stopRequested
  /\ ~isScanning
  /\ app.running = {}

\* C30: a file name whose base name is only a version number, as "1.2.3.exe"
\* or "v2.exe", parses to an empty pluginName with the number in the version
\* field; a file name that is one word without delimiters parses to an empty
\* developer and the whole word as pluginName.
C30_VersionOnlyAndSingleWord ==
  fn.stage # "name" =>
    /\ fn.x \in { <<"1",".","2",".","3",".","e","x","e">>,
                  <<"v","2",".","e","x","e">> } =>
         /\ fn.parsed.pluginName = <<>>
         /\ fn.parsed.version = BaseName(fn.x, ExtName(fn.x))
    /\ fn.x \in { <<"K",".","e","x","e">>, <<"D","e","v",".","e","x","e">> } =>
         /\ fn.parsed.developer = <<>>
         /\ fn.parsed.pluginName = BaseName(fn.x, ExtName(fn.x))

=============================================================================
